---- MODULE Spec2Model ----
(***************************************************************************)
(* A model of LIFOrganiser (src/liforganiser/__init__.py):                 *)
(*   - Course._transform_name, the file-name normaliser      (SpecName)    *)
(*   - Course.get / _from_json / from_url / dump, the cache  (SpecCache)   *)
(*   - Course.organise, the reconcile-and-relocate pipeline  (SpecOrg)     *)
(* Text is modelled as sequences of one-character strings, so that         *)
(* str.replace, "%02d" formatting, str(int) and int(str) are computed.     *)
(***************************************************************************)
EXTENDS Integers, Sequences, FiniteSets, TLC

VARIABLES
    phase,      \* which call the process is in / how it ended
    charOrder,  \* iteration order of the dict _CHAR_REPLACEMENTS in this process
    tnArgs,     \* arguments of the current _transform_name call
    tnResult,   \* its return value
    cacheFile,  \* course_data/<course_id>.json: Absent, Garbage or a parsed JSON value
    site,       \* what LearnItFirst.com served to the last from_url
    result,     \* outcome of the last get / from_url / dump call
    fetches,    \* HTTP requests made by the last call
    course,     \* the Course organise is called on
    args,       \* the arguments of organise
    entries,    \* the top-level entries of src, in os.listdir order
    idx,        \* position of organise's loop in that listing
    scratch,    \* <src>/.temp: whether it exists, and the archives extracted in it
    dstFiles,   \* the files below dst, avi_dst and pdf_dst: path -> source path
    outcome     \* what organise did with each entry visited so far

nameVars == <<tnArgs, tnResult>>
cacheVars == <<cacheFile, site, result, fetches>>
orgVars == <<course, args, entries, idx, scratch, dstFiles, outcome>>
vars == <<phase, charOrder, nameVars, cacheVars, orgVars>>

-----------------------------------------------------------------------------
(* Bounds *)

MaxNameLen == 5
MaxLessons == 2
MaxFiles == 2

-----------------------------------------------------------------------------
(* Text helpers *)

RECURSIVE SeqsUpTo(_, _)
SeqsUpTo(S, n) ==
    IF n = 0 THEN {<<>>}
    ELSE LET shorter == SeqsUpTo(S, n - 1)
         IN  shorter \cup {Append(s, c) : s \in {t \in shorter : Len(t) = n - 1}, c \in S}

Contains(s, sub) ==
    \E i \in 1..(Len(s) - Len(sub) + 1) : SubSeq(s, i, i + Len(sub) - 1) = sub

StartsWith(s, prefix) ==
    Len(s) >= Len(prefix) /\ SubSeq(s, 1, Len(prefix)) = prefix

\* str.replace(old, new): leftmost, non-overlapping occurrences, one pass.
RECURSIVE Replace(_, _, _)
Replace(s, old, new) ==
    IF Len(s) < Len(old) THEN s
    ELSE IF SubSeq(s, 1, Len(old)) = old
         THEN new \o Replace(SubSeq(s, Len(old) + 1, Len(s)), old, new)
         ELSE <<Head(s)>> \o Replace(Tail(s), old, new)

DigitChars == <<"0", "1", "2", "3", "4", "5", "6", "7", "8", "9">>

\* str(n) for n >= 0
RECURSIVE IntToStr(_)
IntToStr(n) ==
    IF n < 10 THEN <<DigitChars[n + 1]>>
    ELSE Append(IntToStr(n \div 10), DigitChars[(n % 10) + 1])

\* "%0<w>d" % n for n >= 0
RECURSIVE ZeroPad(_, _)
ZeroPad(s, w) == IF Len(s) >= w THEN s ELSE ZeroPad(<<"0">> \o s, w)

FormatD(n, w) == ZeroPad(IntToStr(n), w)

SEP == <<" ", "-", " ">>

-----------------------------------------------------------------------------
(* Course._transform_name *)

\* _CHAR_REPLACEMENTS, as (key, value) pairs in the order the literal lists them
_CHAR_REPLACEMENTS ==
    << <<(<<"/">>), (<<" ", "&", " ">>)>>,
       <<SEP, (<<";", " ">>)>> >>

\* The orders in which "for char in _CHAR_REPLACEMENTS" can visit the keys: the
\* listed order, and (dicts of the interpreters setup.py names, 3.0-3.4, are
\* unordered) the other one.
CharOrders == {<<1, 2>>, <<2, 1>>}

RECURSIVE ApplyReplacements(_, _)
ApplyReplacements(name, order) ==
    IF order = <<>> THEN name
    ELSE LET r == _CHAR_REPLACEMENTS[Head(order)]
         IN  ApplyReplacements(Replace(name, r[1], r[2]), Tail(order))

\* ctx = <<>> when chapter_num is None, else <<course_id, chapter_num>>
NamePrefix(num, ctx) ==
    IF ctx # <<>>
    THEN <<"s">> \o FormatD(ctx[1], 3) \o <<"c", "h">> \o FormatD(ctx[2], 2)
         \o <<"l">> \o FormatD(num, 2) \o SEP
    ELSE FormatD(num, 2) \o SEP

_transform_name(num, name, ctx, order) ==
    NamePrefix(num, ctx) \o ApplyReplacements(name, order)

-----------------------------------------------------------------------------
(* Values shared by the specifications *)

Absent == [t |-> "absent"]
Garbage == [t |-> "garbage"]
NoSite == [status |-> "none"]
NoResult == [kind |-> "nothing"]

\* the variables of the specifications that do not call _transform_name
NameIdle == tnArgs = [num |-> 0, name |-> <<>>, ctx |-> <<>>] /\ tnResult = <<>>

\* the variables of the specifications that do not touch the cache or the site
CacheIdle == cacheFile = Absent /\ site = NoSite /\ fetches = 0

\* the variables of the specifications that do not call organise
OrgIdle ==
    /\ course = NoResult
    /\ args = <<>>
    /\ entries = <<>>
    /\ idx = 0
    /\ scratch = <<>>
    /\ dstFiles = <<>>
    /\ outcome = <<>>

-----------------------------------------------------------------------------
(* Python values, as json.load returns them and as the code indexes them *)

PyStr(s) == [t |-> "str", s |-> s]
PyInt(n) == [t |-> "int", n |-> n]
PyNone == [t |-> "none"]
PyList(l) == [t |-> "list", l |-> l]
\* a dict is the sequence of its <<key, value>> items, keys distinct
PyDict(d) == [t |-> "dict", d |-> d]

Ok(v) == [ok |-> TRUE, v |-> v]
Exc(e) == [ok |-> FALSE, exc |-> e]

HasKey(d, k) == \E i \in 1..Len(d) : d[i][1] = k
DictGet(d, k) == d[CHOOSE i \in 1..Len(d) : d[i][1] = k][2]

\* d[k] = v
DictSet(d, k, v) ==
    IF HasKey(d, k)
    THEN [i \in 1..Len(d) |-> IF d[i][1] = k THEN <<k, v>> ELSE d[i]]
    ELSE Append(d, <<k, v>>)

\* d without the key k
DictDel(d, k) == SelectSeq(d, LAMBDA item : item[1] # k)

\* c[k]
GetItem(c, k) ==
    CASE c.t = "dict" ->
           IF HasKey(c.d, k) THEN Ok(DictGet(c.d, k)) ELSE Exc("KeyError")
      [] c.t = "list" ->
           IF k.t # "int" THEN Exc("TypeError")
           ELSE IF k.n >= 0 /\ k.n < Len(c.l) THEN Ok(c.l[k.n + 1])
           ELSE IF k.n < 0 /\ -k.n <= Len(c.l) THEN Ok(c.l[Len(c.l) + k.n + 1])
           ELSE Exc("IndexError")
      [] c.t = "str" ->
           IF k.t # "int" THEN Exc("TypeError")
           ELSE IF k.n >= 0 /\ k.n < Len(c.s) THEN Ok(PyStr(<<c.s[k.n + 1]>>))
           ELSE IF k.n < 0 /\ -k.n <= Len(c.s) THEN Ok(PyStr(<<c.s[Len(c.s) + k.n + 1]>>))
           ELSE Exc("IndexError")
      [] OTHER -> Exc("TypeError")

\* the items "for x in c" visits
Iter(c) ==
    CASE c.t = "dict" -> Ok([i \in 1..Len(c.d) |-> c.d[i][1]])
      [] c.t = "list" -> Ok(c.l)
      [] c.t = "str" -> Ok([i \in 1..Len(c.s) |-> PyStr(<<c.s[i]>>)])
      [] OTHER -> Exc("TypeError")

IsDigit(ch) == \E i \in 1..10 : DigitChars[i] = ch
DigitVal(ch) == (CHOOSE i \in 1..10 : DigitChars[i] = ch) - 1

RECURSIVE Strip(_)
Strip(s) ==
    IF s = <<>> THEN s
    ELSE IF Head(s) = " " THEN Strip(Tail(s))
    ELSE IF s[Len(s)] = " " THEN Strip(SubSeq(s, 1, Len(s) - 1))
    ELSE s

RECURSIVE DigitsVal(_)
DigitsVal(s) ==
    IF s = <<>> THEN 0
    ELSE 10 * DigitsVal(SubSeq(s, 1, Len(s) - 1)) + DigitVal(s[Len(s)])

AllDigits(s) == s # <<>> /\ \A i \in 1..Len(s) : IsDigit(s[i])

\* int(v)
ToInt(v) ==
    CASE v.t = "int" -> Ok(v.n)
      [] v.t = "str" ->
           LET body == Strip(v.s)
               signed == body # <<>> /\ Head(body) \in {"+", "-"}
               digits == IF signed THEN Tail(body) ELSE body
           IN  IF ~AllDigits(digits) THEN Exc("ValueError")
               ELSE IF signed /\ Head(body) = "-" THEN Ok(-DigitsVal(digits))
               ELSE Ok(DigitsVal(digits))
      [] OTHER -> Exc("TypeError")

\* str(n) of any integer
IntRepr(n) == IF n < 0 THEN <<"-">> \o IntToStr(-n) ELSE IntToStr(n)

Put(f, k, v) == [x \in (DOMAIN f) \cup {k} |-> IF x = k THEN v ELSE f[x]]

RECURSIVE SortedSeq(_)
SortedSeq(S) ==
    IF S = {} THEN <<>>
    ELSE LET m == CHOOSE x \in S : \A y \in S : x <= y
         IN  <<m>> \o SortedSeq(S \ {m})

K_chapters == <<"c", "h", "a", "p", "t", "e", "r", "s">>
K_lessons == <<"l", "e", "s", "s", "o", "n", "s">>
K_name == <<"n", "a", "m", "e">>
K_course_id == <<"c", "o", "u", "r", "s", "e", "_", "i", "d">>
K_title == <<"t", "i", "t", "l", "e">>

-----------------------------------------------------------------------------
(* The course model: Course, _Chapter, _Lesson *)

_Lesson(num, name) == [num |-> num, name |-> name]
_Chapter(num, name, lessons) == [num |-> num, name |-> name, lessons |-> lessons]
Course(course_id, title, chapters) ==
    [course_id |-> course_id, title |-> title, chapters |-> chapters]

Return(c) == [kind |-> "course", course |-> c]
ReturnNone == [kind |-> "none"]
Raise(e) == [kind |-> "raise", exc |-> e]

-----------------------------------------------------------------------------
(* Course._from_json *)

\* LoadLessons with the lesson and its key confused: the key is kept as the name
RECURSIVE LoadLessonsKeyAsName(_, _, _)
LoadLessonsKeyAsName(chapter_lessons, keys, lessons) ==
    IF keys = <<>> THEN Ok(lessons)
    ELSE LET lesson == GetItem(chapter_lessons, Head(keys))
             lesson_num == ToInt(Head(keys))
         IN  IF ~lesson.ok THEN lesson
             ELSE IF ~lesson_num.ok THEN lesson_num
             ELSE LoadLessonsKeyAsName(chapter_lessons, Tail(keys),
                      Put(lessons, lesson_num.v, _Lesson(lesson_num.v, Head(keys))))

\* the loop over chapter_lessons; keys are the items still to visit
RECURSIVE LoadLessons(_, _, _)
LoadLessons(chapter_lessons, keys, lessons) ==
    IF keys = <<>> THEN Ok(lessons)
    ELSE LET lesson == GetItem(chapter_lessons, Head(keys))
             lesson_num == ToInt(Head(keys))
         IN  IF ~lesson.ok THEN lesson
             ELSE IF ~lesson_num.ok THEN lesson_num
             ELSE LoadLessons(chapter_lessons, Tail(keys),
                              Put(lessons, lesson_num.v, _Lesson(lesson_num.v, lesson.v)))

\* the loop over course_chapters
RECURSIVE LoadChapters(_, _, _)
LoadChapters(course_chapters, keys, chapters) ==
    IF keys = <<>> THEN Ok(chapters)
    ELSE LET chapter == GetItem(course_chapters, Head(keys))
             chapter_num == ToInt(Head(keys))
             chapter_lessons == GetItem(chapter.v, PyStr(K_lessons))
             lesson_keys == Iter(chapter_lessons.v)
             lessons == LoadLessons(chapter_lessons.v, lesson_keys.v, <<>>)
             name == GetItem(chapter.v, PyStr(K_name))
         IN  IF ~chapter.ok THEN chapter
             ELSE IF ~chapter_num.ok THEN chapter_num
             ELSE IF ~chapter_lessons.ok THEN chapter_lessons
             ELSE IF ~lesson_keys.ok THEN lesson_keys
             ELSE IF ~lessons.ok THEN lessons
             ELSE IF ~name.ok THEN name
             ELSE LoadChapters(course_chapters, Tail(keys),
                               Put(chapters, chapter_num.v,
                                   _Chapter(chapter_num.v, name.v, lessons.v)))

\* the exceptions the except clause of _from_json names
CaughtExceptions == {"KeyError", "IndexError", "TypeError"}

_from_json(file) ==
    IF file = Garbage THEN Raise("ValueError")       \* json.load, outside the try
    ELSE LET course_chapters == GetItem(file, PyStr(K_chapters))
             keys == Iter(course_chapters.v)
             body == IF ~course_chapters.ok THEN course_chapters
                     ELSE IF ~keys.ok THEN keys
                     ELSE LoadChapters(course_chapters.v, keys.v, <<>>)
             course_id == GetItem(file, PyStr(K_course_id))
             title == GetItem(file, PyStr(K_title))
         IN  IF ~body.ok
             THEN IF body.exc \in CaughtExceptions THEN ReturnNone ELSE Raise(body.exc)
             ELSE IF ~course_id.ok THEN Raise(course_id.exc)
             ELSE IF ~title.ok THEN Raise(title.exc)
             ELSE Return(Course(course_id.v, title.v, body.v))

-----------------------------------------------------------------------------
(* Course.dump *)

\* what json.load reads back from what json.dump wrote: the keys of every dict
\* become their str()
RECURSIVE json_dump(_)
json_dump(v) ==
    CASE v.t = "dict" ->
           PyDict([i \in 1..Len(v.d) |->
                      <<IF v.d[i][1].t = "int" THEN PyStr(IntRepr(v.d[i][1].n)) ELSE v.d[i][1],
                        json_dump(v.d[i][2])>>])
      [] v.t = "list" -> PyList([i \in 1..Len(v.l) |-> json_dump(v.l[i])])
      [] OTHER -> v

\* {lesson_num: lesson_data.name for lesson_num, lesson_data in chapter.lessons.items()}
RECURSIVE LessonsDict(_, _)
LessonsDict(lessons, keys) ==
    IF keys = <<>> THEN <<>>
    ELSE DictSet(LessonsDict(lessons, SubSeq(keys, 1, Len(keys) - 1)),
                 PyInt(keys[Len(keys)]), lessons[keys[Len(keys)]].name)

\* the loop of dump over self.chapters: course["chapters"][chapter.num] = {...}
RECURSIVE ChaptersDict(_, _)
ChaptersDict(chapters, keys) ==
    IF keys = <<>> THEN <<>>
    ELSE LET chapter == chapters[keys[Len(keys)]]
         IN  DictSet(ChaptersDict(chapters, SubSeq(keys, 1, Len(keys) - 1)),
                     PyInt(chapter.num),
                     PyDict(<< <<PyStr(K_name), chapter.name>>,
                               <<PyStr(K_lessons),
                                 PyDict(LessonsDict(chapter.lessons,
                                                    SortedSeq(DOMAIN chapter.lessons)))>> >>))

\* the content of the cache file after self.dump()
dump(self) ==
    json_dump(PyDict(<< <<PyStr(K_course_id), self.course_id>>,
                        <<PyStr(K_title), self.title>>,
                        <<PyStr(K_chapters),
                          PyDict(ChaptersDict(self.chapters,
                                              SortedSeq(DOMAIN self.chapters)))>> >>))

-----------------------------------------------------------------------------
(* Course.from_url *)

CourseId == 160

\* the texts of the pages: the course heading, a chapter link, a lesson link
RawTitle == <<"S", "Q", "L", "/", "x">>
RawChapterName == <<"I", "n", "t", "r", "o">>
RawLessonName == <<"a", " ", "-", " ", "b">>

\* the number in the "Chapter N:" label of the i-th chapter block of a page
ChapterNumbers == <<1, 10>>

\* the loop over lesson_divs; labels are the "<chapter>.<lesson>" texts
RECURSIVE ScrapeLessons(_, _, _, _, _)
ScrapeLessons(labels, course_id, chapter_num, order, lessons) ==
    IF labels = <<>> THEN Ok(lessons)
    ELSE LET start_slice == Len(IntRepr(chapter_num) \o <<".">>)
             text == Strip(Head(labels))
             lesson_num == ToInt(PyStr(SubSeq(text, start_slice + 1, Len(text))))
         IN  IF ~lesson_num.ok THEN lesson_num
             ELSE ScrapeLessons(Tail(labels), course_id, chapter_num, order,
                      Put(lessons, lesson_num.v,
                          _Lesson(lesson_num.v,
                                  PyStr(_transform_name(lesson_num.v, RawLessonName,
                                                        <<course_id, chapter_num>>, order)))))

\* the loop over chapter_divs
RECURSIVE ScrapeChapters(_, _, _, _)
ScrapeChapters(chapter_divs, course_id, order, chapters) ==
    IF chapter_divs = <<>> THEN Ok(chapters)
    ELSE LET chapter_div == Head(chapter_divs)
             chapter_num == chapter_div.num
             chapter_name == PyStr(_transform_name(chapter_num, RawChapterName, <<>>, order))
             lessons == ScrapeLessons(chapter_div.lessons, course_id, chapter_num, order, <<>>)
         IN  IF ~chapter_div.next_div THEN Exc("AttributeError")
             ELSE IF chapter_div.lessons = <<>> THEN Exc("LearnItFirstError")
             ELSE IF ~lessons.ok THEN lessons
             ELSE ScrapeChapters(Tail(chapter_divs), course_id, order,
                      Put(chapters, chapter_num,
                          _Chapter(chapter_num, chapter_name, lessons.v)))

\* the outcome of from_url on the pages s, up to (not including) course.dump()
from_url(s, course_id, order) ==
    LET chapters == ScrapeChapters(s.chapters, course_id, order, <<>>)
    IN  IF s.status = "transport_error" THEN Raise("UnboundLocalError")
        ELSE IF s.status = "not_found" THEN Raise("LearnItFirstError")
        ELSE IF ~s.h1 THEN Raise("AttributeError")
        ELSE IF ~s.link THEN Raise("LearnItFirstError")
        ELSE IF s.chapters = <<>> THEN Raise("LearnItFirstError")
        ELSE IF ~chapters.ok THEN Raise(chapters.exc)
        ELSE Return(Course(PyInt(course_id),
                           PyStr(_transform_name(course_id, RawTitle, <<>>, order)),
                           chapters.v))

\* requests.get calls from_url makes on the pages s
FetchCount(s) == IF s.status = "ok" /\ s.h1 /\ s.link THEN 2 ELSE 1

-----------------------------------------------------------------------------
(* SpecCache: get, from_url and dump on one course id *)

\* lesson labels "<chapter>.1" .. "<chapter>.<k>"
LessonLabels(chapter_num, k) ==
    [n \in 1..k |-> IntRepr(chapter_num) \o <<".">> \o IntRepr(n)]

ChapterDivs(i) ==
    {[num |-> ChapterNumbers[i], next_div |-> nd,
      lessons |-> LessonLabels(ChapterNumbers[i], k)] :
        nd \in BOOLEAN, k \in 0..MaxLessons}

RECURSIVE ChapterDivSeqs(_)
ChapterDivSeqs(n) ==
    IF n = 0 THEN {<<>>}
    ELSE LET shorter == ChapterDivSeqs(n - 1)
         IN  shorter \cup {Append(d, c) : d \in {x \in shorter : Len(x) = n - 1},
                                          c \in ChapterDivs(n)}

FullListing ==
    [i \in 1..Len(ChapterNumbers) |->
        [num |-> ChapterNumbers[i], next_div |-> TRUE,
         lessons |-> LessonLabels(ChapterNumbers[i], MaxLessons)]]

\* the pages served: every listing page behind a sound course page, and every
\* course page in front of the full listing
Sites ==
    [status : {"ok"}, h1 : {TRUE}, link : {TRUE},
     chapters : ChapterDivSeqs(Len(ChapterNumbers))]
    \cup [status : {"ok", "not_found", "transport_error"}, h1 : BOOLEAN, link : BOOLEAN,
          chapters : {FullListing}]

WellFormedName == PyStr(<<"0", "1", " ", "-", " ", "n">>)

LessonMaps == {[l \in 1..k |-> 0] : k \in 0..MaxLessons}

WellFormedChapters ==
    UNION {{[n \in D |-> _Chapter(n, WellFormedName,
                                 [l \in DOMAIN lm[n] |-> _Lesson(l, WellFormedName)])] :
               lm \in [D -> LessonMaps]} :
           D \in SUBSET {ChapterNumbers[i] : i \in 1..Len(ChapterNumbers)}}

WellFormedCourses ==
    {Course(PyInt(CourseId), WellFormedName, chapters) : chapters \in WellFormedChapters}

BaseCourse ==
    Course(PyInt(CourseId), WellFormedName,
           (1 :> _Chapter(1, WellFormedName,
                          (1 :> _Lesson(1, WellFormedName)) @@ (2 :> _Lesson(2, WellFormedName))))
           @@ (10 :> _Chapter(10, WellFormedName, (1 :> _Lesson(1, WellFormedName)))))

Base == dump(BaseCourse)
BaseChapters == DictGet(Base.d, PyStr(K_chapters))
BaseChapter1 == DictGet(BaseChapters.d, PyStr(<<"1">>))
BaseLessons1 == DictGet(BaseChapter1.d, PyStr(K_lessons))

WithChapters(x) == PyDict(DictSet(Base.d, PyStr(K_chapters), x))
WithChapter1(x) == WithChapters(PyDict(DictSet(BaseChapters.d, PyStr(<<"1">>), x)))
WithLessons1(x) == WithChapter1(PyDict(DictSet(BaseChapter1.d, PyStr(K_lessons), x)))
RenameKey(v, old, new) ==
    PyDict([i \in 1..Len(v.d) |->
               IF v.d[i][1] = PyStr(old) THEN <<PyStr(new), v.d[i][2]>> ELSE v.d[i]])

WrongTypes ==
    {PyNone, PyInt(0), PyStr(<<>>), PyStr(<<"1">>), PyList(<<>>), PyList(<<PyInt(0)>>),
     PyList(<<PyStr(<<"1">>)>>)}

\* cache files that do not follow the schema of dump
MalformedCaches ==
    {Garbage, PyDict(<<>>)}
    \cup WrongTypes
    \cup {PyDict(DictDel(Base.d, PyStr(k))) : k \in {K_chapters, K_course_id, K_title}}
    \cup {WithChapters(x) : x \in WrongTypes}
    \cup {WithChapters(RenameKey(BaseChapters, old, <<"x">>)) : old \in {<<"1">>, <<"1", "0">>}}
    \cup {WithChapter1(x) : x \in WrongTypes}
    \cup {WithChapter1(PyDict(DictDel(BaseChapter1.d, PyStr(k)))) : k \in {K_lessons, K_name}}
    \cup {WithChapter1(PyDict(DictSet(BaseChapter1.d, PyStr(K_name), PyInt(0))))}
    \cup {WithLessons1(x) : x \in WrongTypes}
    \cup {WithLessons1(RenameKey(BaseLessons1, old, <<"x">>)) : old \in {<<"1">>, <<"2">>}}
    \cup {WithLessons1(PyDict(DictSet(BaseLessons1.d, PyStr(<<"1">>), PyNone)))}
    \cup {RenameKey(WithChapter1(PyDict(DictDel(BaseChapter1.d, PyStr(K_lessons)))),
                    K_title, <<"x">>)}
    \cup {WithChapters(RenameKey(
              DictGet(WithChapter1(PyDict(DictDel(BaseChapter1.d, PyStr(K_lessons)))).d,
                      PyStr(K_chapters)),
              <<"1", "0">>, <<"x">>))}

InitialCaches == {Absent, Base, dump(Course(PyInt(CourseId), WellFormedName, <<>>))}
                 \cup MalformedCaches

\* The raw texts of the pages above are renamed alike under both orders of
\* _CHAR_REPLACEMENTS, so one order is explored here.
InitCache ==
    /\ phase = "start"
    /\ charOrder = <<1, 2>>
    /\ NameIdle
    /\ OrgIdle
    /\ cacheFile \in InitialCaches
    /\ site = NoSite
    /\ result = NoResult
    /\ fetches = 0

\* from_url(course_id) on the pages s, with the course.dump() of a success
Scrape(s) ==
    \E r \in {from_url(s, CourseId, charOrder)} :
        /\ site' = s
        /\ result' = r
        /\ fetches' = FetchCount(s)
        /\ cacheFile' = IF r.kind = "course" THEN dump(r.course) ELSE cacheFile

\* Course.get(course_id)
Get ==
    /\ phase' = "get"
    /\ \E cached \in {IF cacheFile = Absent THEN ReturnNone ELSE _from_json(cacheFile)} :
           IF cached.kind # "none"
           THEN /\ result' = cached
                /\ fetches' = 0
                /\ site' = NoSite
                /\ UNCHANGED cacheFile
           ELSE \E s \in Sites : Scrape(s)
    /\ UNCHANGED <<charOrder, nameVars, orgVars>>

\* Course.from_url(course_id), called directly
FromUrlCall ==
    /\ phase' = "from_url"
    /\ \E s \in Sites : Scrape(s)
    /\ UNCHANGED <<charOrder, nameVars, orgVars>>

\* Course(course_id, title, chapters).dump()
DumpCall ==
    /\ phase' = "dump"
    /\ \E c \in WellFormedCourses :
          /\ cacheFile' = dump(c)
          /\ result' = [kind |-> "dumped", course |-> c]
    /\ site' = NoSite
    /\ fetches' = 0
    /\ UNCHANGED <<charOrder, nameVars, orgVars>>

NextCache == Get \/ FromUrlCall \/ DumpCall

SpecCache == InitCache /\ [][NextCache]_vars

\* the schema of dump: {course_id, title, chapters: {"<n>": {name, lessons: {"<n>": name}}}}
NumericKeys(v) ==
    /\ v.t = "dict"
    /\ \A i \in 1..Len(v.d) : v.d[i][1].t = "str" /\ AllDigits(v.d[i][1].s)

WellFormedChapter(v) ==
    /\ v.t = "dict"
    /\ HasKey(v.d, PyStr(K_name)) /\ DictGet(v.d, PyStr(K_name)).t = "str"
    /\ HasKey(v.d, PyStr(K_lessons))
    /\ NumericKeys(DictGet(v.d, PyStr(K_lessons)))
    /\ \A i \in 1..Len(DictGet(v.d, PyStr(K_lessons)).d) :
          DictGet(v.d, PyStr(K_lessons)).d[i][2].t = "str"

WellFormedCache(v) ==
    /\ v.t = "dict"
    /\ HasKey(v.d, PyStr(K_course_id)) /\ DictGet(v.d, PyStr(K_course_id)).t = "int"
    /\ HasKey(v.d, PyStr(K_title)) /\ DictGet(v.d, PyStr(K_title)).t = "str"
    /\ HasKey(v.d, PyStr(K_chapters))
    /\ NumericKeys(DictGet(v.d, PyStr(K_chapters)))
    /\ \A i \in 1..Len(DictGet(v.d, PyStr(K_chapters)).d) :
          WellFormedChapter(DictGet(v.d, PyStr(K_chapters)).d[i][2])

\* C4: a get that finds a malformed cache file has _from_json report None and
\* falls back to scraping; nothing of the malformation is raised.
C4_MalformedCacheFallsBack ==
    [][(phase' = "get" /\ cacheFile # Absent /\ ~WellFormedCache(cacheFile))
         => (_from_json(cacheFile) = ReturnNone /\ fetches' > 0)]_vars

LandmarkAbsent(s) ==
    \/ ~s.h1
    \/ ~s.link
    \/ s.chapters = <<>>
    \/ \E i \in 1..Len(s.chapters) :
          ~s.chapters[i].next_div \/ s.chapters[i].lessons = <<>>

\* C5: from_url raises LearnItFirstError when the course page answers not-found
\* and whenever the heading, the videos link, the chapter blocks or a chapter's
\* lesson blocks are absent.
C5_ScrapeErrors ==
    site # NoSite =>
        /\ site.status = "not_found" => result = Raise("LearnItFirstError")
        /\ (site.status = "ok" /\ LandmarkAbsent(site)) => result = Raise("LearnItFirstError")

ValidCache(file) == file # Absent /\ _from_json(file).kind = "course"

\* C7: get returns the cached course without a fetch when the cache file
\* deserializes validly and scrapes otherwise; after a get that returned a course
\* the cache file holds that course, and the next get returns it without a fetch.
C7_GetCachedElseScrape ==
    [][phase' = "get" =>
         /\ ValidCache(cacheFile) => (result' = _from_json(cacheFile) /\ fetches' = 0)
         /\ ~ValidCache(cacheFile) => fetches' > 0
         /\ result'.kind = "course" => (ValidCache(cacheFile') /\ _from_json(cacheFile') = result')
         /\ (phase = "get" /\ result.kind = "course") => (result' = result /\ fetches' = 0)]_vars

\* C8: what _from_json loads from what dump wrote has the course_id, the title,
\* the chapter numbers (integers), the chapter names, the lesson numbers
\* (integers) and the lesson names of the course dumped.
C8_RoundTrip ==
    phase = "dump" =>
        LET c == result.course
            r == _from_json(cacheFile)
        IN  /\ r.kind = "course"
            /\ r.course.course_id = c.course_id
            /\ r.course.title = c.title
            /\ DOMAIN r.course.chapters = DOMAIN c.chapters
            /\ DOMAIN r.course.chapters \subseteq Int
            /\ \A n \in DOMAIN c.chapters :
                  /\ r.course.chapters[n].num = n
                  /\ r.course.chapters[n].name = c.chapters[n].name
                  /\ DOMAIN r.course.chapters[n].lessons = DOMAIN c.chapters[n].lessons
                  /\ DOMAIN r.course.chapters[n].lessons \subseteq Int
                  /\ \A l \in DOMAIN c.chapters[n].lessons :
                        /\ r.course.chapters[n].lessons[l].num = l
                        /\ r.course.chapters[n].lessons[l].name = c.chapters[n].lessons[l].name

\* a course with a two-digit chapter number and two lessons has been dumped
C8_Witness ==
    /\ phase = "dump"
    /\ 10 \in DOMAIN result.course.chapters
    /\ DOMAIN result.course.chapters[10].lessons = {1, 2}

-----------------------------------------------------------------------------
(* Course.organise: names, paths and patterns *)

EXTSEP == <<".">>
Avi == <<"a", "v", "i">>
Pdf == <<"p", "d", "f">>
Html == <<"h", "t", "m", "l">>
DotDot == <<".", ".">>

\* str.lower(), on the letters the file names use
LowerChar(c) ==
    CASE c = "A" -> "a" [] c = "V" -> "v" [] c = "I" -> "i" [] OTHER -> c
Lower(s) == [i \in 1..Len(s) |-> LowerChar(s[i])]

\* position of the last "." of s, 0 if there is none
LastDot(s) ==
    IF \E i \in 1..Len(s) : s[i] = "."
    THEN CHOOSE i \in 1..Len(s) : s[i] = "." /\ \A j \in (i + 1)..Len(s) : s[j] # "."
    ELSE 0

\* os.path.splitext(file_name)[1][1:].lower()
Ext(file_name) ==
    LET k == LastDot(file_name)
    IN  IF k <= 1 THEN <<>> ELSE Lower(SubSeq(file_name, k + 1, Len(file_name)))

\* number of digits s starts with
RECURSIVE LeadingDigits(_)
LeadingDigits(s) ==
    IF s # <<>> /\ IsDigit(Head(s)) THEN 1 + LeadingDigits(Tail(s)) ELSE 0

NoMatch == [matched |-> FALSE]

\* re.match(chapter_pattern, name) for the caller's chapter_pattern r"ch(\d+)":
\* group(1) as int
ChapterMatch(name) ==
    LET rest == SubSeq(name, 3, Len(name))
        d == LeadingDigits(rest)
    IN  IF StartsWith(name, <<"c", "h">>) /\ d > 0
        THEN [matched |-> TRUE, num |-> DigitsVal(SubSeq(rest, 1, d))]
        ELSE NoMatch

\* re.match(lesson_pattern, file_name) for the caller's lesson_pattern
\* r"(\d+)\.\s*(.*)\.\w+": int(group(1)) and group(2).strip()
LessonMatch(file_name) ==
    LET d == LeadingDigits(file_name)
        rest == SubSeq(file_name, d + 2, Len(file_name))
        k == LastDot(rest)
    IN  IF d > 0 /\ Len(file_name) > d /\ file_name[d + 1] = "." /\ k > 0 /\ k < Len(rest)
        THEN [matched |-> TRUE, num |-> DigitsVal(SubSeq(file_name, 1, d)),
              description |-> Strip(SubSeq(rest, 1, k - 1))]
        ELSE NoMatch

RECURSIVE CommonPrefixLen(_, _)
CommonPrefixLen(a, b) ==
    IF a # <<>> /\ b # <<>> /\ Head(a) = Head(b)
    THEN 1 + CommonPrefixLen(Tail(a), Tail(b))
    ELSE 0

\* os.path.relpath(root, start), as path components
RelPath(root, start) ==
    LET c == CommonPrefixLen(root, start)
    IN  [i \in 1..(Len(start) - c) |-> DotDot] \o SubSeq(root, c + 1, Len(root))

\* the place a path names once the file system has resolved its ".." components
RECURSIVE Resolve(_, _)
Resolve(path, done) ==
    IF path = <<>> THEN done
    ELSE IF Head(path) = DotDot
         THEN Resolve(Tail(path), SubSeq(done, 1, Len(done) - 1))
         ELSE Resolve(Tail(path), Append(done, Head(path)))

_File(ext, num, file_path, new_file_path) ==
    [ext |-> ext, num |-> num, file_path |-> file_path, new_file_path |-> new_file_path]

\* the directories of a chapter, as paths below its root, in the order os.walk
\* visits them
DirA == <<"A">>
DirB == <<"B">>
WalkOrder == << <<>>, <<DirA>>, <<DirB>> >>

SrcPath == << <<"s">> >>
DstPath == << <<"d">> >>
AviDstPath == << <<"v">> >>
PdfDstPath == << <<"p">> >>
TempName == <<".", "t", "e", "m", "p">>

-----------------------------------------------------------------------------
(* Course.organise: the scan of one chapter *)

\* The loop over file_names of one directory. root is the directory below the
\* chapter's path; cx holds what the loop reads: the chapter, the arguments and
\* contents_path. Returns the files list and whether the loop ended in the break.
RECURSIVE ScanFiles(_, _, _, _)
ScanFiles(file_names, root, cx, files) ==
    IF file_names = <<>> THEN [files |-> files, broke |-> FALSE]
    ELSE LET file_name == Head(file_names)
             ext == Ext(file_name)
             file_path == cx.path \o root \o <<file_name>>
             dst_rel_path == <<cx.title, cx.chapter.name.s>>
                             \o (IF root # cx.contents_path
                                 THEN RelPath(root, cx.contents_path) ELSE <<>>)
             lesson_match == LessonMatch(file_name)
             num == lesson_match.num
             lesson_name == cx.chapter.lessons[num].name.s \o EXTSEP \o ext
             other_name == _transform_name(num, lesson_match.description,
                                           <<cx.course_id, cx.chapter_num>>, cx.order)
                           \o EXTSEP \o ext
         IN  IF ext \in cx.ignored_exts
             THEN ScanFiles(Tail(file_names), root, cx, files)
             ELSE IF ~lesson_match.matched
             THEN ScanFiles(Tail(file_names), root, cx,
                      Append(files, _File(ext, PyNone, file_path,
                                          cx.dst \o dst_rel_path \o <<file_name>>)))
             ELSE IF ext \notin {Avi, Pdf}
             THEN ScanFiles(Tail(file_names), root, cx,
                      Append(files, _File(ext, PyInt(num), file_path,
                                          cx.dst \o dst_rel_path \o <<other_name>>)))
             ELSE IF num \notin DOMAIN cx.chapter.lessons
             THEN [files |-> files, broke |-> TRUE]
             ELSE ScanFiles(Tail(file_names), root, cx,
                      Append(files, _File(ext, PyInt(num), file_path,
                                          (IF ext = Avi THEN cx.avi_dst ELSE cx.pdf_dst)
                                          \o dst_rel_path \o <<lesson_name>>)))

\* The loop over os.walk(path). contents is <<>> while contents_path is None,
\* <<contents_path>> afterwards.
RECURSIVE Walk(_, _, _, _, _, _)
Walk(roots, tree, cx, contents, files, broke) ==
    IF roots = <<>> THEN [files |-> files, broke |-> broke]
    ELSE LET root == Head(roots)
             contents_path == IF contents = <<>> THEN root ELSE contents[1]
             scan == ScanFiles(tree[root], root,
                               [cx EXCEPT !.contents_path = contents_path], files)
         IN  IF tree[root] = <<>>
             THEN Walk(Tail(roots), tree, cx, contents, files, broke)
             ELSE Walk(Tail(roots), tree, cx, <<contents_path>>, scan.files,
                       broke \/ scan.broke)

\* set(_file.num for _file in files if _file.ext == "avi" and _file.num is not None)
AviNums(files) ==
    {files[i].num.n : i \in {j \in 1..Len(files) :
                               files[j].ext = Avi /\ files[j].num # PyNone}}

\* Complete, rejecting only the videos the course does not list
CompleteNoExtra(chapter, files) == AviNums(files) \subseteq DOMAIN chapter.lessons

\* the completeness check of a chapter
Complete(chapter, files) == DOMAIN chapter.lessons = AviNums(files)

\* MoveAll handing shutil.move the destination directory instead of the new path
RECURSIVE MoveIntoDirs(_, _)
MoveIntoDirs(files, dst) ==
    IF files = <<>> THEN dst
    ELSE LET f == Head(files)
             dir_path == SubSeq(f.new_file_path, 1, Len(f.new_file_path) - 1)
         IN  MoveIntoDirs(Tail(files),
                          Put(dst, Resolve(dir_path \o <<f.file_path[Len(f.file_path)]>>, <<>>),
                              f.file_path))

\* the loop of shutil.move over files
RECURSIVE MoveAll(_, _)
MoveAll(files, dst) ==
    IF files = <<>> THEN dst
    ELSE MoveAll(Tail(files),
                 Put(dst, Resolve(Head(files).new_file_path, <<>>), Head(files).file_path))

\* a tree without the files moved out of it; path is the chapter's path
Remaining(tree, path, files) ==
    [root \in DOMAIN tree |->
        SelectSeq(tree[root],
                  LAMBDA file_name :
                      \A i \in 1..Len(files) : files[i].file_path # path \o root \o <<file_name>>)]

-----------------------------------------------------------------------------
(* Course.organise: the call *)

\* InvalidPath without the check of pdf_dst
InvalidPathPdfUnchecked(a) ==
    \/ ~a.src_ok
    \/ ~a.dst_ok
    \/ a.avi_dst = "missing"

\* the checks of src, dst, avi_dst and pdf_dst that raise OSError
InvalidPath(a) ==
    \/ ~a.src_ok
    \/ ~a.dst_ok
    \/ a.avi_dst = "missing"
    \/ a.pdf_dst = "missing"

NoScratch == [exists |-> FALSE, trees |-> <<>>]

Visited(status, broke, files, renamed) ==
    [status |-> status, broke |-> broke, files |-> files, renamed |-> renamed]

\* organise up to its loop: the path checks
OrganiseStart ==
    /\ phase = "call"
    /\ IF InvalidPath(args)
       THEN phase' = "failed" /\ result' = Raise("OSError") /\ idx' = idx
       ELSE phase' = "loop" /\ result' = NoResult /\ idx' = 1
    /\ UNCHANGED <<charOrder, nameVars, cacheFile, site, fetches,
                   course, args, entries, scratch, dstFiles, outcome>>

\* One pass of the loop over os.listdir(src) on the entry e: what it leaves of
\* the entry, the scratch directory and the destinations, what it did (visited),
\* and the exception that ended it, if any.
Process(e, self, a, order, scratch0, dst0) ==
    LET name == e.name
        original_path == SrcPath \o <<name>>
        chapter_match == ChapterMatch(name)
        chapter_num == chapter_match.num
        is_zip == e.kind = "zip"
        path == IF is_zip THEN SrcPath \o <<TempName, name>> ELSE original_path
        extracted == IF is_zip
                     THEN [exists |-> TRUE, trees |-> Put(scratch0.trees, name, e.tree)]
                     ELSE scratch0
        chapter == self.chapters[chapter_num]
        cx == [chapter |-> chapter, chapter_num |-> chapter_num, path |-> path,
               contents_path |-> <<>>, title |-> self.title.s,
               course_id |-> self.course_id.n, order |-> order,
               ignored_exts |-> a.ignored_exts, dst |-> DstPath,
               avi_dst |-> IF a.avi_dst = "None" THEN DstPath ELSE AviDstPath,
               pdf_dst |-> IF a.pdf_dst = "None" THEN DstPath ELSE PdfDstPath]
        walked == Walk(WalkOrder, e.tree, cx, <<>>, <<>>, FALSE)
        left == Remaining(e.tree, path, walked.files)
        prefixed == a.completed_prefix # PyNone
        untouched == [entry |-> e, scratch |-> scratch0, dst |-> dst0, raised |-> FALSE,
                      visited |-> Visited("passed_over", FALSE, <<>>, FALSE)]
    IN  IF ~chapter_match.matched \/ (~is_zip /\ e.kind = "file")
        THEN untouched
        ELSE IF chapter_num \notin DOMAIN self.chapters
        THEN [untouched EXCEPT !.scratch = extracted, !.raised = TRUE]
        ELSE IF ~Complete(chapter, walked.files)
        THEN [untouched EXCEPT
                !.scratch = extracted,
                !.visited = Visited("skipped", walked.broke, walked.files, FALSE)]
        ELSE [entry |-> [e EXCEPT !.tree = IF is_zip THEN e.tree ELSE left,
                                  !.name = IF prefixed THEN a.completed_prefix.s \o name
                                           ELSE name],
              scratch |-> IF is_zip
                          THEN [exists |-> TRUE, trees |-> Put(scratch0.trees, name, left)]
                          ELSE scratch0,
              dst |-> MoveAll(walked.files, dst0),
              raised |-> FALSE,
              visited |-> Visited("moved", walked.broke, walked.files, prefixed)]

\* one pass of the loop of organise; a chapter number that is no key of
\* self.chapters ends the call with KeyError
ProcessEntry ==
    /\ phase = "loop"
    /\ idx <= Len(entries)
    /\ \E r \in {Process(entries[idx], course, args, charOrder, scratch, dstFiles)} :
          /\ entries' = [entries EXCEPT ![idx] = r.entry]
          /\ scratch' = r.scratch
          /\ dstFiles' = r.dst
          /\ phase' = IF r.raised THEN "raised" ELSE phase
          /\ result' = IF r.raised THEN Raise("KeyError") ELSE result
          /\ idx' = IF r.raised THEN idx ELSE idx + 1
          /\ outcome' = IF r.raised THEN outcome ELSE Append(outcome, r.visited)
    /\ UNCHANGED <<charOrder, nameVars, cacheFile, site, fetches, course, args>>

\* Finish without the shutil.rmtree of the scratch directory
FinishKeepsScratch ==
    /\ phase = "loop"
    /\ idx > Len(entries)
    /\ phase' = "done"
    /\ UNCHANGED <<charOrder, nameVars, cacheVars, result, orgVars>>

\* the end of organise: the scratch directory is deleted
Finish ==
    /\ phase = "loop"
    /\ idx > Len(entries)
    /\ phase' = "done"
    /\ scratch' = NoScratch
    /\ UNCHANGED <<charOrder, nameVars, cacheVars, result,
                   course, args, entries, idx, dstFiles, outcome>>

-----------------------------------------------------------------------------
(* SpecOrg: one call of organise on bounded source trees *)

FileName(num, description, ext) == num \o <<".">> \o description \o <<".">> \o ext

F_1a_avi == FileName(<<"1">>, <<"a">>, Avi)
F_2a_avi == FileName(<<"2">>, <<"a">>, Avi)
F_1b_AVI == FileName(<<"1">>, <<"b">>, <<"A", "V", "I">>)
F_1a_pdf == FileName(<<"1">>, <<"a">>, Pdf)
F_2a_pdf == FileName(<<"2">>, <<"a">>, Pdf)
F_1a_txt == FileName(<<"1">>, <<"a">>, <<"t", "x", "t">>)
F_1a_html == FileName(<<"1">>, <<"a">>, Html)
F_x_txt == <<"x", ".", "t", "x", "t">>

FileNames ==
    {F_1a_avi, F_2a_avi, F_1b_AVI, F_1a_pdf, F_2a_pdf, F_1a_txt, F_1a_html, F_x_txt}

DirPaths == {WalkOrder[i] : i \in 1..Len(WalkOrder)}
EmptyTree == [root \in DirPaths |-> <<>>]
FileCount(tree) == Len(tree[WalkOrder[1]]) + Len(tree[WalkOrder[2]]) + Len(tree[WalkOrder[3]])
InDir(tree, root, file_name) == \E i \in 1..Len(tree[root]) : tree[root][i] = file_name

\* the trees that have one more file than t
Grown(t) ==
    {[t EXCEPT ![p[1]] = Append(t[p[1]], p[2])] :
        p \in {q \in DirPaths \X FileNames : ~InDir(t, q[1], q[2])}}

\* the trees of at most n files
RECURSIVE Trees(_)
Trees(n) ==
    IF n = 0 THEN {EmptyTree}
    ELSE LET smaller == Trees(n - 1)
         IN  smaller \cup UNION {Grown(t) : t \in {x \in smaller : FileCount(x) = n - 1}}

Entry(name, kind, tree) == [name |-> name, kind |-> kind, tree |-> tree]

N_ch1 == <<"c", "h", "1">>
N_ch2 == <<"c", "h", "2">>
N_ch10 == <<"c", "h", "1", "0">>
Zip(name) == name \o <<".", "z">>

\* the chapter entry under study: chapter 1 as a directory or an archive
StudiedEntries ==
    {Entry(N_ch1, "dir", t) : t \in Trees(MaxFiles)}
    \cup {Entry(Zip(N_ch1), "zip", t) : t \in Trees(MaxFiles)}

OneVideo == [EmptyTree EXCEPT ![<<>>] = <<F_1a_avi>>]

\* the entry beside it: a plain file with a chapter's name, an archive without
\* one, chapter 2 (not in the course), chapter 10 (one lesson)
OtherEntries ==
    {Entry(N_ch1 \o <<".", "t">>, "file", EmptyTree),
     Entry(Zip(<<"x">>), "zip", OneVideo),
     Entry(N_ch2, "dir", OneVideo),
     Entry(Zip(N_ch2), "zip", OneVideo),
     Entry(Zip(N_ch10), "zip", OneVideo)}

\* the entries that may come before the studied one
FirstEntries ==
    {Entry(Zip(N_ch2), "zip", OneVideo), Entry(Zip(N_ch10), "zip", OneVideo)}

\* os.listdir(src): the studied entry and then any other, or an archive first
IsListing(l) ==
    \E a \in StudiedEntries :
        \/ \E b \in OtherEntries : l = <<a, b>>
        \/ \E b \in FirstEntries : l = <<b, a>>

\* the listing used where the path arguments vary: two chapters that are complete
SoundListing ==
    <<Entry(N_ch1, "dir", [EmptyTree EXCEPT ![<<>>] = <<F_1a_avi, F_2a_avi>>]),
      Entry(Zip(N_ch10), "zip", OneVideo)>>

CompletedPrefixes == {PyNone, PyStr(<<"D">>)}

\* valid paths: avi_dst, pdf_dst and completed_prefix all left out, or all given
ValidArgs ==
    {[src_ok |-> TRUE, dst_ok |-> TRUE, avi_dst |-> "None", pdf_dst |-> "None",
      completed_prefix |-> PyNone, ignored_exts |-> {Html}],
     [src_ok |-> TRUE, dst_ok |-> TRUE, avi_dst |-> "dir", pdf_dst |-> "dir",
      completed_prefix |-> PyStr(<<"D">>), ignored_exts |-> {Html}]}

AnyArgs ==
    [src_ok : BOOLEAN, dst_ok : BOOLEAN, avi_dst : {"None", "dir", "missing"},
     pdf_dst : {"None", "dir", "missing"},
     completed_prefix : CompletedPrefixes, ignored_exts : {{Html}}]

\* the course scraped from a listing of chapter 1 with k lessons and chapter 10
\* with one lesson
OrgSite(k) ==
    [status |-> "ok", h1 |-> TRUE, link |-> TRUE,
     chapters |-> <<[num |-> 1, next_div |-> TRUE, lessons |-> LessonLabels(1, k)],
                    [num |-> 10, next_div |-> TRUE, lessons |-> LessonLabels(10, 1)]>>]

OrgCourses == {from_url(OrgSite(k), CourseId, <<1, 2>>).course : k \in {1, 2}}

InitOrg ==
    /\ phase = "call"
    /\ charOrder = <<1, 2>>
    /\ NameIdle
    /\ CacheIdle
    /\ result = NoResult
    /\ course \in OrgCourses
    /\ \/ args \in ValidArgs /\ IsListing(entries)
       \/ args \in AnyArgs /\ entries = SoundListing
    /\ idx = 0
    /\ scratch = NoScratch
    /\ dstFiles = <<>>
    /\ outcome = <<>>

NextOrg == OrganiseStart \/ ProcessEntry \/ Finish

SpecOrg == InitOrg /\ [][NextOrg]_vars

\* the entry is taken as a chapter of the course: its name matches
\* chapter_pattern, it is a directory or an archive, its number is in the course
IsChapter(e) ==
    /\ ChapterMatch(e.name).matched
    /\ e.kind # "file"
    /\ ChapterMatch(e.name).num \in DOMAIN course.chapters

ChapterOf(e) == course.chapters[ChapterMatch(e.name).num]

\* the loop of organise is about to visit an entry that is a chapter
AtChapter == phase = "loop" /\ idx <= Len(entries) /\ IsChapter(entries[idx])

\* C1: when the lesson numbers of the collected avi files that matched
\* lesson_pattern differ from the lesson numbers of the chapter, no file of the
\* chapter is moved, the entry keeps its name, and the loop goes on to the next
\* entry.
C1_MismatchSkipsChapter ==
    [][(AtChapter /\ AviNums(outcome'[idx].files) # DOMAIN ChapterOf(entries[idx]).lessons)
         => /\ entries' = entries
            /\ dstFiles' = dstFiles
            /\ outcome'[idx].status = "skipped"
            /\ entries[idx].kind = "zip" =>
                   scratch'.trees[entries[idx].name] = entries[idx].tree
            /\ idx' = idx + 1
            /\ phase' = "loop"]_vars

\* a chapter that has files but not its videos was skipped, and the entry after
\* it was moved
C1_Witness ==
    /\ Len(outcome) = 2
    /\ outcome[1].status = "skipped"
    /\ outcome[1].files # <<>>
    /\ ~outcome[1].broke
    /\ outcome[2].status = "moved"
    /\ DOMAIN dstFiles # {}

\* some file of the tree matches lesson_pattern, has extension avi or pdf and a
\* lesson number the chapter does not have
HasUnknownLesson(tree, chapter) ==
    \E root \in DOMAIN tree : \E i \in 1..Len(tree[root]) :
        /\ LessonMatch(tree[root][i]).matched
        /\ Ext(tree[root][i]) \in {Avi, Pdf}
        /\ LessonMatch(tree[root][i]).num \notin DOMAIN chapter.lessons

\* C2: a chapter holding a file that matches lesson_pattern, with extension avi
\* or pdf and a lesson number the course does not list for the chapter, is
\* aborted: none of its files is moved.
C2_UnknownLessonAborts ==
    [][(AtChapter /\ HasUnknownLesson(entries[idx].tree, ChapterOf(entries[idx])))
         => /\ dstFiles' = dstFiles
            /\ entries' = entries
            /\ outcome'[idx].status = "skipped"]_vars

\* C3: every file moved lies in <root>/<course title>/<chapter name>/ followed by
\* the directory path it had below the chapter's content root.
C3_DestinationKeepsSubpath ==
    \A p \in DOMAIN dstFiles :
        LET s == dstFiles[p]
            base == IF s[2] = TempName THEN 3 ELSE 2
            below == SubSeq(s, base + 1, Len(s) - 1)
            chapter == course.chapters[ChapterMatch(s[base]).num]
        IN  \E root \in {DstPath, AviDstPath, PdfDstPath} :
                SubSeq(p, 1, Len(p) - 1) = root \o <<course.title.s, chapter.name.s>> \o below

\* C9: the entry is renamed to completed_prefix followed by its name exactly
\* when completed_prefix is set, the chapter passed its reconciliation (no file
\* with an unknown lesson, videos equal to the lessons) and its files were moved;
\* any other entry keeps its name.
C9_RenamedIffCompleted ==
    [][(phase = "loop" /\ idx <= Len(entries))
         => LET e == entries[idx]
                completed ==
                    /\ IsChapter(e)
                    /\ args.completed_prefix # PyNone
                    /\ ~HasUnknownLesson(e.tree, ChapterOf(e))
                    /\ AviNums(outcome'[idx].files) = DOMAIN ChapterOf(e).lessons
                    /\ outcome'[idx].status = "moved"
            IN  /\ completed => entries'[idx].name = args.completed_prefix.s \o e.name
                /\ ~completed => entries'[idx].name = e.name
                /\ \A k \in DOMAIN entries : k # idx => entries'[k] = entries[k]]_vars

\* C10: when src or dst is no directory, or avi_dst or pdf_dst is given and is
\* no directory, organise raises OSError and has done nothing: no entry is
\* visited, nothing is extracted, moved or renamed, and nothing follows.
C10_InvalidPathRaisesFirst ==
    [][/\ (/\ phase = "call"
           /\ \/ ~args.src_ok
              \/ ~args.dst_ok
              \/ args.avi_dst = "missing"
              \/ args.pdf_dst = "missing")
          => /\ phase' = "failed"
             /\ result' = Raise("OSError")
             /\ UNCHANGED <<entries, scratch, dstFiles, outcome>>
       /\ phase = "failed" => UNCHANGED vars]_vars

\* the call failed on pdf_dst alone
C10_Witness ==
    /\ phase = "failed"
    /\ result = Raise("OSError")
    /\ args.src_ok /\ args.dst_ok
    /\ args.avi_dst # "missing"
    /\ args.pdf_dst = "missing"
    /\ dstFiles = <<>>
    /\ outcome = <<>>

\* a tree without the files whose lower-cased extension is in exts
WithoutIgnored(tree, exts) ==
    [root \in DOMAIN tree |->
        SelectSeq(tree[root], LAMBDA file_name : Ext(file_name) \notin exts)]

\* the files of a tree that are among those of another, directory by directory
KeepsFiles(tree, kept) ==
    \A root \in DOMAIN tree : \A i \in 1..Len(kept[root]) :
        InDir(tree, root, kept[root][i])

\* C11: a file whose lower-cased extension is in ignored_exts is never moved, and
\* the chapter ends as it would without that file: same destinations, same
\* verdict (skipped or moved), same name of the entry.
C11_IgnoredFilesChangeNothing ==
    [][AtChapter
         => LET e == entries[idx]
                bare == WithoutIgnored(e.tree, args.ignored_exts)
                without == Process([e EXCEPT !.tree = bare], course, args, charOrder,
                                   scratch, dstFiles)
                ignored == [root \in DOMAIN e.tree |->
                               SelectSeq(e.tree[root],
                                         LAMBDA f : Ext(f) \in args.ignored_exts)]
                after == IF e.kind = "zip" THEN scratch'.trees[e.name]
                         ELSE entries'[idx].tree
            IN  /\ KeepsFiles(after, ignored)
                /\ dstFiles' = without.dst
                /\ outcome'[idx].status = without.visited.status
                /\ entries'[idx].name = without.entry.name]_vars

\* the chapter passes its reconciliation: no file with an unknown lesson, and
\* the videos found are the lessons of the chapter
PassesReconciliation(e, files) ==
    /\ IsChapter(e)
    /\ ~HasUnknownLesson(e.tree, ChapterOf(e))
    /\ AviNums(files) = DOMAIN ChapterOf(e).lessons

\* where the entry's files are read from: the entry, or its extraction
PathOf(e) == IF e.kind = "zip" THEN SrcPath \o <<TempName, e.name>> ELSE SrcPath \o <<e.name>>

\* the destination root and the new name the claim gives a file by its kind
RootByKind(file_name, a) ==
    LET ext == Ext(file_name)
    IN  IF LessonMatch(file_name).matched /\ ext = Avi /\ a.avi_dst # "None" THEN AviDstPath
        ELSE IF LessonMatch(file_name).matched /\ ext = Pdf /\ a.pdf_dst # "None"
        THEN PdfDstPath
        ELSE DstPath

NameByKind(file_name, chapter, ctx, order) ==
    LET m == LessonMatch(file_name)
        ext == Ext(file_name)
    IN  IF ~m.matched THEN file_name
        ELSE IF ext \in {Avi, Pdf} THEN chapter.lessons[m.num].name.s \o <<".">> \o ext
        ELSE _transform_name(m.num, m.description, ctx, order) \o <<".">> \o ext

\* C12: when a chapter passes its reconciliation, every file under it that is not
\* ignored is moved exactly once: to avi_dst, pdf_dst or dst by its kind, under
\* the name of its kind, files of one directory under one relative path that
\* starts with <course title>/<chapter name>; after the moves the file is gone
\* from the source and its destination holds a file moved there.
C12_MovedByKind ==
    [][(AtChapter /\ PassesReconciliation(entries[idx], outcome'[idx].files))
         => LET e == entries[idx]
                chapter == ChapterOf(e)
                files == outcome'[idx].files
                after == IF e.kind = "zip" THEN scratch'.trees[e.name]
                         ELSE entries'[idx].tree
                rel(j) == SubSeq(files[j].new_file_path, 2, Len(files[j].new_file_path) - 1)
                dir(j) == SubSeq(files[j].file_path, 1, Len(files[j].file_path) - 1)
                kept == WithoutIgnored(e.tree, args.ignored_exts)
            IN  /\ outcome'[idx].status = "moved"
                /\ Len(files) = FileCount(kept)
                /\ \A root \in DOMAIN kept : \A i \in 1..Len(kept[root]) :
                     LET f == kept[root][i]
                     IN  /\ ~InDir(after, root, f)
                         /\ \E j \in 1..Len(files) :
                              /\ files[j].file_path = PathOf(e) \o root \o <<f>>
                              /\ \A k \in 1..Len(files) :
                                   files[k].file_path = files[j].file_path => k = j
                              /\ files[j].new_file_path =
                                   <<RootByKind(f, args)[1]>> \o rel(j)
                                   \o <<NameByKind(f, chapter,
                                                   <<course.course_id.n, ChapterMatch(e.name).num>>,
                                                   charOrder)>>
                              /\ StartsWith(rel(j), <<course.title.s, chapter.name.s>>)
                              /\ \A k \in 1..Len(files) : dir(k) = dir(j) => rel(k) = rel(j)
                              /\ LET p == Resolve(files[j].new_file_path, <<>>)
                                 IN  /\ p \in DOMAIN dstFiles'
                                     /\ \E k \in 1..Len(files) :
                                          /\ Resolve(files[k].new_file_path, <<>>) = p
                                          /\ dstFiles'[p] = files[k].file_path]_vars

\* a chapter was moved with its video under avi_dst and its document under pdf_dst
C12_Witness ==
    /\ outcome # <<>>
    /\ outcome[1].status = "moved"
    /\ ~outcome[1].broke
    /\ Len(outcome[1].files) = 2
    /\ \E p, q \in DOMAIN dstFiles : p[1] = AviDstPath[1] /\ q[1] = PdfDstPath[1]

\* the entries the loop has met: those before idx, and the one at idx when the
\* call ended on it
Met == IF phase = "raised" THEN 1..idx ELSE 1..(idx - 1)

\* the name entry i had when the loop met it
NameWhenMet(i) ==
    IF i \in DOMAIN outcome /\ outcome[i].renamed
    THEN SubSeq(entries[i].name, Len(args.completed_prefix.s) + 1, Len(entries[i].name))
    ELSE entries[i].name

\* entry i is an archive whose name matches chapter_pattern
ArchiveChapter(i) == entries[i].kind = "zip" /\ ChapterMatch(NameWhenMet(i)).matched

\* C13: <src>/.temp exists only once an archive chapter entry has been met, holds
\* the extraction of every archive chapter entry met in the run, and is gone
\* when organise has finished with the entries of src, whatever became of the
\* archive chapters.
C13_ScratchLifetime ==
    /\ phase \in {"loop", "raised"} =>
          /\ scratch.exists <=> \E i \in Met : ArchiveChapter(i)
          /\ DOMAIN scratch.trees = {NameWhenMet(i) : i \in {k \in Met : ArchiveChapter(k)}}
    /\ phase \in {"call", "failed", "done"} => scratch = NoScratch

\* organise has finished a run of two archive chapters, one skipped and one
\* moved, and the scratch directory is gone
C13_Witness ==
    /\ phase = "done"
    /\ Len(outcome) = 2
    /\ entries[1].kind = "zip" /\ entries[2].kind = "zip"
    /\ outcome[1].status = "skipped"
    /\ outcome[2].status = "moved"
    /\ ~scratch.exists

\* the number of files the loops of shutil.move have taken from the source
RECURSIVE MovedCount(_)
MovedCount(i) ==
    IF i = 0 THEN 0
    ELSE MovedCount(i - 1) + (IF outcome[i].status = "moved" THEN Len(outcome[i].files) ELSE 0)

\* C14: organise loses no file: no two files of one chapter's move set have the
\* same destination, and as many files have arrived at the destinations as were
\* taken from the source.
C14_NoFileLost ==
    /\ \A i \in DOMAIN outcome :
          outcome[i].status = "moved" =>
              \A j, k \in 1..Len(outcome[i].files) :
                  j # k => Resolve(outcome[i].files[j].new_file_path, <<>>)
                           # Resolve(outcome[i].files[k].new_file_path, <<>>)
    /\ Cardinality(DOMAIN dstFiles) = MovedCount(Len(outcome))

\* C15: an entry that is a directory or an archive, matches chapter_pattern and
\* has a chapter number the course does not have is left untouched, raises
\* nothing, and the loop goes on to the next entry (and so to the deletion of the
\* scratch directory).
C15_UnknownChapterPassedOver ==
    [][(/\ phase = "loop"
        /\ idx <= Len(entries)
        /\ entries[idx].kind # "file"
        /\ ChapterMatch(entries[idx].name).matched
        /\ ChapterMatch(entries[idx].name).num \notin DOMAIN course.chapters)
         => /\ entries' = entries
            /\ dstFiles' = dstFiles
            /\ result' = result
            /\ phase' = "loop"
            /\ idx' = idx + 1]_vars

-----------------------------------------------------------------------------
(* SpecName: calls of _transform_name on bounded raw names *)

NameAlphabet == {"a", " ", "-", "/"}
RawNames == SeqsUpTo(NameAlphabet, MaxNameLen)
NameCtxs == {<<>>, <<160, 1>>}

InitName ==
    /\ phase = "idle"
    /\ charOrder \in CharOrders
    /\ tnArgs \in [num : {3}, name : RawNames, ctx : NameCtxs]
    /\ tnResult = <<>>
    /\ result = NoResult
    /\ CacheIdle
    /\ OrgIdle

TransformName ==
    /\ phase = "idle"
    /\ tnResult' = _transform_name(tnArgs.num, tnArgs.name, tnArgs.ctx, charOrder)
    /\ phase' = "named"
    /\ UNCHANGED <<charOrder, tnArgs, cacheVars, orgVars>>

NextName == TransformName

SpecName == InitName /\ [][NextName]_vars

\* the part of the result after the numbering prefix and its " - "
NamePart ==
    SubSeq(tnResult, Len(NamePrefix(tnArgs.num, tnArgs.ctx)) + 1, Len(tnResult))

\* C6: for every raw name, the name part of _transform_name's result contains
\* no " - " and no "/".
C6_NoSeparatorLeft ==
    phase = "named" => ~Contains(NamePart, SEP) /\ ~Contains(NamePart, <<"/">>)

====
